---- MODULE Spec2Model ----
(***************************************************************************)
(* Spatial navigation model of the record room: the platform graph builder *)
(* (config/platforms.ts), the avatar navigation state machine with its     *)
(* pickup/drop handlers (hooks/useCatMovement.ts) and the prop states of   *)
(* the page (pages/RoomPage.tsx).                                          *)
(*                                                                         *)
(* Lengths are fixed-point integers in units of 0.05 world units, so that  *)
(* 1.0 = 20, 0.15 = 3, 2.5 = 50: every length the code uses is a multiple  *)
(* of 0.05.                                                                *)
(***************************************************************************)
EXTENDS Integers, Sequences, FiniteSets, TLC

\* ------------------------------------------------------------- bounds
\* Largest track count a room is built with (0..MaxTrackCount).
MaxTrackCount == 15
\* Largest number of move-duration timers pending at once.
MaxTimers == 2
\* Track count of the largest room the avatar is walked through in Spec.
MaxRoomTracks == 7
\* Most negative track count generatePlatforms is called with (SpecGraphAny).
MaxNegative == 2
\* Number of floor animation frames in a session with the props (SpecProps).
MaxFrames == 1
\* Number of pickup/drop key presses in such a session.
MaxPropKeys == 2
\* The avatar component is followed until its clock shows MaxElapsedTime
\* tenths of a second, through frames of one or MaxFrameStep tenths.
MaxElapsedTime == 24
MaxFrameStep == 3

\* ------------------------------------------------------------- constants
\* null / undefined of the source (platform ids are integers >= -1).
NULL == -99
FLOOR_PLATFORM_ID == -1
\* FLOOR_Y = -3, FLOOR_Z = 2
FLOOR_Y == -60
FLOOR_Z == 40
\* ITEM_SIZE = 2, WALL_HEIGHT = 6, GAP_WIDTH = 0.5, GAP_HEIGHT = 0.5,
\* VERTICAL_OFFSET = 0.6, BASE_X = -4, z = 0.1
ITEM_SIZE == 40
WALL_HEIGHT == 120
GAP_WIDTH == 10
GAP_HEIGHT == 10
VERTICAL_OFFSET == 12
BASE_X == -80
SHELF_Z == 2
ROWS == 2
\* FLOOR_BOUNDS = { minX: -10, maxX: 15 }
FLOOR_MIN_X == -200
FLOOR_MAX_X == 300
\* FLOOR_MOVE_SPEED = 0.15
FLOOR_MOVE_SPEED == 3
\* PICKUP_DISTANCE = 1
PICKUP_DISTANCE == 20
\* The avatar's position on the floor: y = FLOOR_Y + 0.15, z = FLOOR_Z + 0.3
CAT_FLOOR_DY == 3
CAT_FLOOR_DZ == 6
\* ... and on a platform: y = position.y - 1.1 + 0.15, z = position.z + 0.6
CAT_PLATFORM_DY == -19
CAT_PLATFORM_DZ == 12
\* RECORD_SPACING = 2.2
RECORD_SPACING == 44
\* The lamp dropped on a shelf: y = position.y - 1
LAMP_SHELF_DY == -20

\* The avatar component's durations, in tenths of a second:
\* JUMP_DURATION_S = 0.6, WINDOW_PAUSE_DURATION = 1.0,
\* WINDOW_TRANSITION_DURATION = 0.5
JUMP_DURATION_S == 6
WINDOW_PAUSE_DURATION == 10
WINDOW_TRANSITION_DURATION == 5

\* INITIAL_TOY_POSITION, INITIAL_HAT_POSITION and the lamp's first position.
INITIAL_TOY_POSITION == [x |-> 40, y |-> FLOOR_Y, z |-> FLOOR_Z]
INITIAL_HAT_POSITION == [x |-> -40, y |-> FLOOR_Y, z |-> FLOOR_Z]
INITIAL_LAMP_POSITION == [x |-> 80, y |-> -28, z |-> 16]

SPECIAL_OBJECT_POSITIONS ==
  << [type |-> "window", row |-> 0, col |-> 2],
     [type |-> "medal",  row |-> 1, col |-> 4],
     [type |-> "window", row |-> 0, col |-> 5] >>

\* ------------------------------------------------------------- helpers
Max(a, b) == IF a >= b THEN a ELSE b
Min(a, b) == IF a <= b THEN a ELSE b
Abs(a) == IF a < 0 THEN -a ELSE a
\* Math.ceil(a / 2) for an integer a
CeilHalf(a) == (a + 1) \div 2

NoConnections == [left |-> NULL, right |-> NULL, up |-> NULL, down |-> NULL]

\* Object.values(platforms): integer-like keys ascending, then the key "-1"
\* (not an array index) in insertion order.
ObjectValues(platforms) ==
  LET nonneg == {i \in DOMAIN platforms : i >= 0}
      k == Cardinality(nonneg)
  IN  [i \in 1..Cardinality(DOMAIN platforms) |->
         IF i <= k THEN platforms[i - 1] ELSE platforms[FLOOR_PLATFORM_ID]]

\* Array.prototype.find / filter(...)[0] on ids: the id of the first element
\* of the matching ones, or NULL (undefined).
FirstId(matching) == IF Len(matching) = 0 THEN NULL ELSE matching[1].id

\* ------------------------------------------------------------- graph builder
calculatePosition(row, col) ==
  LET startX == IF col = 0 THEN BASE_X
                ELSE BASE_X + ITEM_SIZE + GAP_WIDTH + (col - 1) * (ITEM_SIZE + GAP_WIDTH)
      startY == (WALL_HEIGHT \div 2) - GAP_HEIGHT - (ITEM_SIZE \div 2)
                - row * (ITEM_SIZE + GAP_HEIGHT) + VERTICAL_OFFSET
  IN  [x |-> startX, y |-> startY, z |-> SHELF_Z]

NewPlatform(id, row, col, type, records) ==
  [id |-> id, grid |-> [row |-> row, col |-> col],
   position |-> calculatePosition(row, col),
   connections |-> NoConnections, type |-> type, records |-> records]

FloorPlatform ==
  [id |-> FLOOR_PLATFORM_ID, grid |-> [row |-> 2, col |-> 0],
   position |-> [x |-> 0, y |-> FLOOR_Y, z |-> FLOOR_Z],
   connections |-> NoConnections, type |-> "floor", records |-> <<>>]

\* Builder locals before the first loop.
BuildInit ==
  [platforms |-> <<>>, platformId |-> 0, trackIndex |-> 0,
   occupiedPositions |-> {},
   specialObjectIds |-> [window |-> <<>>, medal |-> <<>>],
   shelvesByRow |-> <<>>]

\* Mutant: a later object takes the cell over from the one listed first.
RECURSIVE placeSpecialObjects_lastWins(_, _, _)
placeSpecialObjects_lastWins(config, i, st) ==
  IF i > Len(config) THEN st
  ELSE LET c == config[i]
           positionKey == <<c.row, c.col>>
           specialId == st.platformId
           oldId == CHOOSE q \in DOMAIN st.platforms :
                      st.platforms[q].grid = [row |-> c.row, col |-> c.col]
           others == [t \in {"window", "medal"} |->
                        SelectSeq(st.specialObjectIds[t], LAMBDA q : q # oldId)]
       IN  IF positionKey \in st.occupiedPositions
           THEN placeSpecialObjects_lastWins(config, i + 1,
                  [st EXCEPT
                     !.platforms[oldId].type = c.type,
                     !.specialObjectIds = [others EXCEPT ![c.type] = Append(@, oldId)]])
           ELSE placeSpecialObjects_lastWins(config, i + 1,
                  [st EXCEPT
                     !.platforms = @ @@ (specialId :> NewPlatform(specialId, c.row, c.col, c.type, <<>>)),
                     !.platformId = @ + 1,
                     !.specialObjectIds[c.type] = Append(@, specialId),
                     !.occupiedPositions = @ \cup {positionKey}])

\* SPECIAL_OBJECT_POSITIONS.forEach: a configured object whose cell is taken is
\* skipped, the others get the next platform id.
RECURSIVE placeSpecialObjects(_, _, _)
placeSpecialObjects(config, i, st) ==
  IF i > Len(config) THEN st
  ELSE LET c == config[i]
           positionKey == <<c.row, c.col>>
           specialId == st.platformId
       IN  IF positionKey \in st.occupiedPositions
           THEN placeSpecialObjects(config, i + 1, st)
           ELSE placeSpecialObjects(config, i + 1,
                  [st EXCEPT
                     !.platforms = @ @@ (specialId :> NewPlatform(specialId, c.row, c.col, c.type, <<>>)),
                     !.platformId = @ + 1,
                     !.specialObjectIds[c.type] = Append(@, specialId),
                     !.occupiedPositions = @ \cup {positionKey}])

\* Mutant: the columns are counted for the tracks alone, as if no special
\* object took a cell.
columnsNeeded_tracksOnly(config, trackCount) == CeilHalf(trackCount)

columnsNeeded(config, trackCount) == CeilHalf(trackCount + Len(config))

\* Mutant: track indices are handed out from 1 instead of 0.
ShelfRecords_fromOne(trackIndex) == <<trackIndex + 1>>

\* A new shelf holding exactly the next track index.
ShelfRecords(trackIndex) == <<trackIndex>>

\* The nested loop over (col, row): an occupied cell registers its special
\* object in shelvesByRow and continues; `break` leaves the row loop of the
\* column once the tracks are used up.
RECURSIVE createShelves(_, _, _, _, _)
createShelves(config, trackCount, col, row, st) ==
  IF col > columnsNeeded(config, trackCount) THEN st
  ELSE IF row >= ROWS THEN createShelves(config, trackCount, col + 1, 0, st)
  ELSE IF <<row, col>> \in st.occupiedPositions THEN
    LET specialObj == \E i \in 1..Len(config) : config[i].row = row /\ config[i].col = col
        specialPlatform == FirstId(SelectSeq(ObjectValues(st.platforms),
                                  LAMBDA p : p.grid.row = row /\ p.grid.col = col))
        st2 == IF specialObj /\ specialPlatform # NULL
               THEN [st EXCEPT !.shelvesByRow[row + 1] = Append(@, specialPlatform)]
               ELSE st
    IN  createShelves(config, trackCount, col, row + 1, st2)
  ELSE IF st.trackIndex >= trackCount THEN createShelves(config, trackCount, col + 1, 0, st)
  ELSE
    LET shelfId == st.platformId
    IN  createShelves(config, trackCount, col, row + 1,
          [st EXCEPT
             !.platforms = @ @@ (shelfId :> NewPlatform(shelfId, row, col, "shelf", ShelfRecords(st.trackIndex))),
             !.platformId = @ + 1,
             !.shelvesByRow[row + 1] = Append(@, shelfId),
             !.trackIndex = @ + 1])

\* findPlatformInRow: the id of the platform found in shelvesByRow[row], or NULL.
findPlatformInRow(st, row, col, direction) ==
  LET platformsInRow == [i \in 1..Len(st.shelvesByRow[row + 1]) |->
                           st.platforms[st.shelvesByRow[row + 1][i]]]
      lefts == SelectSeq(platformsInRow, LAMBDA p : p.grid.col < col)
      rights == SelectSeq(platformsInRow, LAMBDA p : p.grid.col > col)
  IN  CASE direction = "exact" ->
             FirstId(SelectSeq(platformsInRow, LAMBDA p : p.grid.col = col))
        [] direction = "left" ->
             FirstId(SelectSeq(lefts, LAMBDA p : \A j \in 1..Len(lefts) : lefts[j].grid.col <= p.grid.col))
        [] OTHER ->
             FirstId(SelectSeq(rights, LAMBDA p : \A j \in 1..Len(rights) : rights[j].grid.col >= p.grid.col))

\* findSpecialObjectAt: the id of the window/medal at (row, col), or NULL.
findSpecialObjectAt(st, row, col) ==
  FirstId(SelectSeq(ObjectValues(st.platforms),
         LAMBDA p : p.type \in {"window", "medal"} /\ p.grid.row = row /\ p.grid.col = col))

\* a ?? b on ids
Or(a, b) == IF a # NULL THEN a ELSE b

\* First pass (shelves and medals).
shelfLeft(st, row, col) ==
  IF col > 0
  THEN Or(findSpecialObjectAt(st, row, col - 1), findPlatformInRow(st, row, col - 1, "exact"))
  ELSE NULL

shelfRight(st, row, col) ==
  Or(findPlatformInRow(st, row, col, "right"), findSpecialObjectAt(st, row, col + 1))

\* Mutant: the up connection is never set.
shelfUp_never(st, row, col, old) == old

shelfUp(st, row, col, old) ==
  IF row = 1
  THEN Or(findSpecialObjectAt(st, 0, col), findPlatformInRow(st, 0, col, "exact"))
  ELSE old

\* Mutant: a top-row shelf gets no down connection.
shelfDown_topNull(st, row, col) ==
  IF row = 0 THEN NULL ELSE FLOOR_PLATFORM_ID

shelfDown(st, row, col) ==
  IF row = 0
  THEN Or(findSpecialObjectAt(st, 1, col), findPlatformInRow(st, 1, col, "exact"))
  ELSE FLOOR_PLATFORM_ID

shelfConnections(st, p) ==
  [left |-> shelfLeft(st, p.grid.row, p.grid.col),
   right |-> shelfRight(st, p.grid.row, p.grid.col),
   up |-> shelfUp(st, p.grid.row, p.grid.col, p.connections.up),
   down |-> shelfDown(st, p.grid.row, p.grid.col)]

\* Second and third pass (windows, then medals): the same code for both.
specialConnections(st, p) ==
  LET row == p.grid.row
      col == p.grid.col
  IN  [right |-> Or(findPlatformInRow(st, row, col, "right"), findSpecialObjectAt(st, row, col + 1)),
       left |-> IF col > 0
                THEN Or(findPlatformInRow(st, row, col - 1, "exact"), findSpecialObjectAt(st, row, col - 1))
                ELSE p.connections.left,
       up |-> IF row = 1
              THEN Or(findPlatformInRow(st, 0, col, "exact"), findSpecialObjectAt(st, 0, col))
              ELSE p.connections.up,
       down |-> IF row = 1
                THEN FLOOR_PLATFORM_ID
                ELSE Or(findPlatformInRow(st, 1, col, "exact"), findSpecialObjectAt(st, 1, col))]

connectShelves(st) ==
  [st EXCEPT !.platforms =
     [id \in DOMAIN st.platforms |->
        IF st.platforms[id].type \in {"shelf", "medal"}
        THEN [st.platforms[id] EXCEPT !.connections = shelfConnections(st, st.platforms[id])]
        ELSE st.platforms[id]]]

connectSpecials(st, type) ==
  LET ids == {st.specialObjectIds[type][i] : i \in 1..Len(st.specialObjectIds[type])}
  IN  [st EXCEPT !.platforms =
         [id \in DOMAIN st.platforms |->
            IF id \in ids
            THEN [st.platforms[id] EXCEPT !.connections = specialConnections(st, st.platforms[id])]
            ELSE st.platforms[id]]]

\* Mutant: the floor sentinel is never added to the set.
addFloor_missing(st) == st

addFloor(st) ==
  [st EXCEPT !.platforms = @ @@ (FLOOR_PLATFORM_ID :> FloorPlatform)]

\* The body of generatePlatforms after the cache test: the platform record.
buildPlatforms(config, trackCount) ==
  LET s0 == [BuildInit EXCEPT !.shelvesByRow = <<(<<>>), (<<>>)>>]
      s1 == placeSpecialObjects(config, 1, s0)
      s2 == createShelves(config, trackCount, 0, 0, s1)
      s3 == addFloor(s2)
      s4 == connectShelves(s3)
      s5 == connectSpecials(s4, "window")
      s6 == connectSpecials(s5, "medal")
  IN  s6.platforms


\* ------------------------------------------------------------- state
VARIABLES
  specialObjectPositions, \* the module's SPECIAL_OBJECT_POSITIONS list
  cachedPlatforms,   \* module cache: the platform record, or NULL
  cachedTrackCount,  \* module cache: the track count it was built for
  lastTrackCount,    \* argument of the latest generatePlatforms call (NULL: none)
  lastResult,        \* what that call returned
  refTrackCount,     \* an earlier call kept for comparison (NULL: none)
  refResult,         \* what that earlier call returned
  lastHit,           \* the latest call was served from the cache
  refEarlier,        \* the kept call came before the latest call
  platform,          \* useState(startPlatformId)
  recordIndex,       \* useState<number | null>(null)
  facing,            \* useState('right')
  isMoving,          \* useState(false)
  floorX,            \* useState(startFloorX)
  keysPressed,       \* useRef(new Set())
  timers,            \* pending setTimeout(() => setIsMoving(false), MOVE_DURATION_MS)
  lastEvent,         \* the event just handled: the key of a keydown, "tick", else "none"
  carryingToy,       \* useState(false)
  wearingHat,        \* useState(false)
  wearingLamp,       \* useState(false)
  toyState,          \* RoomPage: useState<ToyState>
  hatState,          \* RoomPage: useState<HatState>
  lampState,         \* RoomPage: useState<LampState>
  lastCallbacks,     \* the pickup/drop callbacks the event just handled invoked
  framesLeft,        \* floor animation frames left in the session (NULL: unbounded)
  propKeysLeft,      \* pickup/drop key presses left in the session
  jump,              \* PlaceholderCat: jumpRef.current (active, t0, lastTarget)
  windowHang,        \* PlaceholderCat: windowHangRef.current (phase, landedTime, swingStartTime)
  elapsedTime        \* the render loop's state.clock.elapsedTime

cacheVars == <<cachedPlatforms, cachedTrackCount>>
callVars == <<lastTrackCount, lastResult, refTrackCount, refResult, lastHit, refEarlier>>
navVars == <<platform, recordIndex, facing, isMoving, floorX, keysPressed, timers, lastEvent>>
propStateVars == <<carryingToy, wearingHat, wearingLamp, toyState, hatState, lampState>>
propVars == <<carryingToy, wearingHat, wearingLamp, toyState, hatState, lampState, lastCallbacks>>
vars == <<specialObjectPositions, cachedPlatforms, cachedTrackCount, lastTrackCount, lastResult, refTrackCount,
          refResult, lastHit, refEarlier, platform, recordIndex, facing, isMoving, floorX, keysPressed, timers,
          lastEvent, carryingToy, wearingHat, wearingLamp, toyState, hatState, lampState,
          lastCallbacks, framesLeft, propKeysLeft, jump, windowHang, elapsedTime>>
catVars == <<jump, windowHang, elapsedTime>>
sessionVars == <<framesLeft, propKeysLeft>>

ArrowKeys == {"ArrowLeft", "ArrowRight", "ArrowUp", "ArrowDown"}
\* 'g' / 'G' picks up, 'd' / 'D' drops.
PropKeys == {"g", "d"}

\* ------------------------------------------------------------- platform cache
\* cachedPlatforms = null: no platform record
NoPlatforms == <<>>

\* if (cachedPlatforms && cachedTrackCount === trackCount) return cachedPlatforms
cacheHit(cached, cachedCount, trackCount) == cached # NoPlatforms /\ cachedCount = trackCount

\* Mutant: a rebuild replaces the cached platforms but not the cached count.
generatePlatforms_staleCount(cached, cachedCount, trackCount) ==
  IF cacheHit(cached, cachedCount, trackCount)
  THEN [result |-> cached, cachedPlatforms |-> cached, cachedTrackCount |-> cachedCount]
  ELSE LET platforms == buildPlatforms(specialObjectPositions, trackCount)
       IN  [result |-> platforms, cachedPlatforms |-> platforms, cachedTrackCount |-> cachedCount]

\* generatePlatforms(trackCount): [result, cachedPlatforms, cachedTrackCount]
generatePlatforms(cached, cachedCount, trackCount) ==
  IF cacheHit(cached, cachedCount, trackCount)
  THEN [result |-> cached, cachedPlatforms |-> cached, cachedTrackCount |-> cachedCount]
  ELSE LET platforms == buildPlatforms(specialObjectPositions, trackCount)
       IN  [result |-> platforms, cachedPlatforms |-> platforms, cachedTrackCount |-> trackCount]

\* getPlatform(id) without a track count reads the cache; hasPlatform(id) is
\* "getPlatform(id) is not undefined".
hasPlatform(id) == id \in DOMAIN cachedPlatforms
getPlatform(id) == cachedPlatforms[id]

\* Mutant: a later shelf at the same distance replaces the closest one.
RECURSIVE closestFrom_lastWins(_, _, _, _)
closestFrom_lastWins(shelves, i, closest, x) ==
  IF i > Len(shelves) THEN closest
  ELSE IF Abs(x - shelves[i].position.x) <= Abs(x - closest.position.x)
       THEN closestFrom_lastWins(shelves, i + 1, shelves[i], x)
       ELSE closestFrom_lastWins(shelves, i + 1, closest, x)

\* findClosestBottomShelf(x): the id of the closest row-1 shelf, or NULL.
RECURSIVE closestFrom(_, _, _, _)
closestFrom(shelves, i, closest, x) ==
  IF i > Len(shelves) THEN closest
  ELSE IF Abs(x - shelves[i].position.x) < Abs(x - closest.position.x)
       THEN closestFrom(shelves, i + 1, shelves[i], x)
       ELSE closestFrom(shelves, i + 1, closest, x)

findClosestBottomShelf(x) ==
  IF cachedPlatforms = NoPlatforms THEN NULL
  ELSE LET bottomShelves == SelectSeq(ObjectValues(cachedPlatforms),
                                      LAMBDA p : p.type = "shelf" /\ p.grid.row = 1)
       IN  IF Len(bottomShelves) = 0 THEN NULL
           ELSE closestFrom(bottomShelves, 1, bottomShelves[1], x).id

\* ------------------------------------------------------------- navigation
\* The hook's state as one record, for the handlers below.
Nav ==
  [platform |-> platform, recordIndex |-> recordIndex, facing |-> facing,
   isMoving |-> isMoving, floorX |-> floorX, keysPressed |-> keysPressed,
   timers |-> timers]

\* startMove: setIsMoving(true) and one more pending timer.
startMove(s) == [s EXCEPT !.isMoving = TRUE, !.timers = @ + 1]

\* setFloorX(targetFloorX) when landing on the floor with a target x given
\* (NULL: the argument was omitted).
landingFloorX(s, targetType, targetFloorX) ==
  IF targetType = "floor" /\ targetFloorX # NULL THEN targetFloorX ELSE s.floorX

\* Mutant: every landing selects record 0, whatever the target is.
landingRecordIndex_alwaysZero(targetType) == 0

\* Land on the first record of a shelf, on null elsewhere.
landingRecordIndex(targetType) == IF targetType = "shelf" THEN 0 ELSE NULL

jumpToPlatform(s, targetPlatformId, targetFloorX) ==
  IF targetPlatformId = NULL \/ s.isMoving THEN s
  ELSE IF ~hasPlatform(targetPlatformId) THEN s
  ELSE LET targetPlatform == getPlatform(targetPlatformId)
           m == startMove(s)
       IN  [m EXCEPT !.platform = targetPlatformId,
                     !.floorX = landingFloorX(s, targetPlatform.type, targetFloorX),
                     !.recordIndex = landingRecordIndex(targetPlatform.type)]

\* One requestAnimationFrame callback of the floor movement loop.
\* Mutant: the left step is not clamped to the floor bounds.
nextFloorX_noClamp(x, keys) ==
  IF "ArrowLeft" \in keys THEN x - FLOOR_MOVE_SPEED
  ELSE IF "ArrowRight" \in keys THEN Min(FLOOR_MAX_X, x + FLOOR_MOVE_SPEED)
  ELSE x

nextFloorX(x, keys) ==
  IF "ArrowLeft" \in keys THEN Max(FLOOR_MIN_X, x - FLOOR_MOVE_SPEED)
  ELSE IF "ArrowRight" \in keys THEN Min(FLOOR_MAX_X, x + FLOOR_MOVE_SPEED)
  ELSE x

\* Mutant: a frame with no key held leaves isMoving as it was.
moveOnFloor_noStop(s) ==
  LET newX == nextFloorX(s.floorX, s.keysPressed)
      moved == "ArrowLeft" \in s.keysPressed \/ "ArrowRight" \in s.keysPressed
  IN  IF moved /\ newX # s.floorX
      THEN [s EXCEPT !.floorX = newX, !.isMoving = TRUE]
      ELSE s

moveOnFloor(s) ==
  LET newX == nextFloorX(s.floorX, s.keysPressed)
      moved == "ArrowLeft" \in s.keysPressed \/ "ArrowRight" \in s.keysPressed
  IN  IF moved /\ newX # s.floorX
      THEN [s EXCEPT !.floorX = newX, !.isMoving = TRUE]
      ELSE IF "ArrowLeft" \notin s.keysPressed /\ "ArrowRight" \notin s.keysPressed
      THEN [s EXCEPT !.isMoving = FALSE]
      ELSE s

\* handleKeyDown on the floor platform.
floorKeyDown(s, key) ==
  CASE key = "ArrowLeft" ->
         [s EXCEPT !.keysPressed = @ \cup {"ArrowLeft"}, !.facing = "left"]
    [] key = "ArrowRight" ->
         [s EXCEPT !.keysPressed = @ \cup {"ArrowRight"}, !.facing = "right"]
    [] key = "ArrowUp" ->
         IF s.isMoving THEN s
         ELSE jumpToPlatform(s, findClosestBottomShelf(s.floorX), NULL)
    [] OTHER -> s

\* handleKeyDown on a shelf, window or medal.
facingOnKey(s, key) ==
  CASE key = "ArrowLeft" -> "left"
    [] key = "ArrowRight" -> "right"
    [] OTHER -> s.facing

connectionFor(currentPlatform, key) ==
  CASE key = "ArrowLeft" -> currentPlatform.connections.left
    [] key = "ArrowRight" -> currentPlatform.connections.right
    [] key = "ArrowUp" -> currentPlatform.connections.up
    [] key = "ArrowDown" -> currentPlatform.connections.down
    [] OTHER -> NULL

\* Mutant: ArrowDown passes no x to jumpToPlatform.
targetFloorXFor_none(currentPlatform, key, targetId) == NULL

\* The x passed to jumpToPlatform: only ArrowDown onto the floor passes one.
targetFloorXFor(currentPlatform, key, targetId) ==
  IF key = "ArrowDown" /\ hasPlatform(targetId) /\ getPlatform(targetId).type = "floor"
  THEN currentPlatform.position.x
  ELSE NULL

\* Mutant: the move window is opened before the connection is looked at.
platformKeyDown_moveFirst(s, currentPlatform, key) ==
  IF s.isMoving THEN s
  ELSE LET f == [s EXCEPT !.facing = facingOnKey(s, key)]
           targetId == connectionFor(currentPlatform, key)
       IN  IF targetId # NULL
           THEN jumpToPlatform(f, targetId, targetFloorXFor(currentPlatform, key, targetId))
           ELSE startMove(f)

platformKeyDown(s, currentPlatform, key) ==
  IF s.isMoving THEN s
  ELSE LET f == [s EXCEPT !.facing = facingOnKey(s, key)]
           targetId == connectionFor(currentPlatform, key)
       IN  IF targetId # NULL
           THEN jumpToPlatform(f, targetId, targetFloorXFor(currentPlatform, key, targetId))
           ELSE f

\* Mutant: the handler closes over a stale isMoving = false.
handleKeyDown_staleMoving(s, key) ==
  IF ~hasPlatform(s.platform) THEN s
  ELSE LET currentPlatform == getPlatform(s.platform)
           stale == [s EXCEPT !.isMoving = FALSE]
           r == IF currentPlatform.type = "floor"
                THEN floorKeyDown(stale, key)
                ELSE platformKeyDown(stale, currentPlatform, key)
       IN  IF r.timers # s.timers THEN r ELSE [r EXCEPT !.isMoving = s.isMoving]

handleKeyDown(s, key) ==
  IF ~hasPlatform(s.platform) THEN s
  ELSE LET currentPlatform == getPlatform(s.platform)
       IN  IF currentPlatform.type = "floor"
           THEN floorKeyDown(s, key)
           ELSE platformKeyDown(s, currentPlatform, key)

handleKeyUp(s, key) ==
  IF key \in {"ArrowLeft", "ArrowRight"}
  THEN [s EXCEPT !.keysPressed = @ \ {key}]
  ELSE s

\* The track the avatar is next to: records[recordIndex], undefined (NULL)
\* past the end of the list, null without a record index.
currentTrackIndex(s) ==
  IF s.recordIndex # NULL /\ hasPlatform(s.platform)
  THEN IF s.recordIndex + 1 \in 1..Len(getPlatform(s.platform).records)
       THEN getPlatform(s.platform).records[s.recordIndex + 1]
       ELSE NULL
  ELSE NULL

\* Mutant: the timer callback does not clear the flag.
timerExpired_noClear(s) == [s EXCEPT !.timers = @ - 1]

\* The timer callback of startMove: setIsMoving(false).
timerExpired(s) == [s EXCEPT !.isMoving = FALSE, !.timers = @ - 1]

\* ------------------------------------------------------------- props
\* The hook's carrying/wearing flags and the page's prop states as one record;
\* callbacks collects the page callbacks a handler invokes.
Props ==
  [carryingToy |-> carryingToy, wearingHat |-> wearingHat, wearingLamp |-> wearingLamp,
   toyState |-> toyState, hatState |-> hatState, lampState |-> lampState,
   callbacks |-> {}]

areObjectsNear(catPos, objectPos) ==
  /\ Abs(catPos.x - objectPos.x) < PICKUP_DISTANCE
  /\ Abs(catPos.y - objectPos.y) < PICKUP_DISTANCE
  /\ Abs(catPos.z - objectPos.z) < PICKUP_DISTANCE

\* catPos of isNearToy and isNearHat: the avatar's place on the floor.
catFloorPos(s) ==
  [x |-> s.floorX, y |-> FLOOR_Y + CAT_FLOOR_DY, z |-> FLOOR_Z + CAT_FLOOR_DZ]

\* catPos of isNearLamp: on the floor as above, elsewhere next to the current
\* record of the platform.
catLampPos(s) ==
  LET currentPlatform == getPlatform(s.platform)
      recordCount == Len(currentPlatform.records)
      totalWidth == (recordCount - 1) * RECORD_SPACING
      startOffset == -(totalWidth \div 2)
      catX == IF currentPlatform.type = "shelf" /\ s.recordIndex # NULL
                 /\ s.recordIndex < recordCount
              THEN currentPlatform.position.x + startOffset + s.recordIndex * RECORD_SPACING
              ELSE currentPlatform.position.x
  IN  IF currentPlatform.type = "floor" THEN catFloorPos(s)
      ELSE [x |-> catX,
            y |-> currentPlatform.position.y + CAT_PLATFORM_DY,
            z |-> currentPlatform.position.z + CAT_PLATFORM_DZ]

isNearToy(s, pr) ==
  /\ ~(pr.toyState.isCarried \/ pr.carryingToy)
  /\ hasPlatform(s.platform)
  /\ getPlatform(s.platform).type = "floor"
  /\ areObjectsNear(catFloorPos(s), pr.toyState.position)

isNearHat(s, pr) ==
  /\ ~(pr.hatState.isWorn \/ pr.wearingHat)
  /\ areObjectsNear(catFloorPos(s), pr.hatState.position)

isNearLamp(s, pr) ==
  /\ ~(pr.lampState.isWorn \/ pr.wearingLamp)
  /\ hasPlatform(s.platform)
  /\ areObjectsNear(catLampPos(s), pr.lampState.position)

\* The page's callbacks.
handlePickupToy(pr) ==
  [pr EXCEPT !.toyState.isCarried = TRUE, !.callbacks = @ \cup {"onPickupToy"}]

handleDropToy(pr, x, z) ==
  [pr EXCEPT !.toyState = [position |-> [x |-> x, y |-> FLOOR_Y, z |-> z], isCarried |-> FALSE],
             !.callbacks = @ \cup {"onDropToy"}]

handlePickupHat(pr) ==
  [pr EXCEPT !.hatState.isWorn = TRUE, !.callbacks = @ \cup {"onPickupHat"}]

handleDropHat(pr, x, z) ==
  [pr EXCEPT !.hatState = [position |-> [x |-> x, y |-> FLOOR_Y, z |-> z], isWorn |-> FALSE],
             !.callbacks = @ \cup {"onDropHat"}]

handlePickupLamp(pr) ==
  [pr EXCEPT !.lampState.isWorn = TRUE, !.callbacks = @ \cup {"onPickupLamp"}]

\* platformRef.current follows the avatar's platform.
handleDropLamp(s, pr, x, z) ==
  LET dropY == IF hasPlatform(s.platform) /\ getPlatform(s.platform).type = "shelf"
               THEN getPlatform(s.platform).position.y + LAMP_SHELF_DY
               ELSE FLOOR_Y
  IN  [pr EXCEPT !.lampState = [position |-> [x |-> x, y |-> dropY, z |-> z], isWorn |-> FALSE],
                 !.callbacks = @ \cup {"onDropLamp"}]

\* The hook's handlers: each tests the state the key handler closed over (pr0)
\* and adds its updates to pr.
pickupToy(s, pr0, pr) ==
  IF isNearToy(s, pr0) THEN handlePickupToy([pr EXCEPT !.carryingToy = TRUE]) ELSE pr

\* Mutant: the toy is dropped whether or not it is carried.
dropToy_unguarded(s, pr0, pr) ==
  handleDropToy([pr EXCEPT !.carryingToy = FALSE], s.floorX, FLOOR_Z)

dropToy(s, pr0, pr) ==
  IF pr0.carryingToy THEN handleDropToy([pr EXCEPT !.carryingToy = FALSE], s.floorX, FLOOR_Z) ELSE pr

pickupHat(s, pr0, pr) ==
  IF isNearHat(s, pr0) THEN handlePickupHat([pr EXCEPT !.wearingHat = TRUE]) ELSE pr

dropHat(s, pr0, pr) ==
  IF pr0.wearingHat THEN handleDropHat([pr EXCEPT !.wearingHat = FALSE], s.floorX, FLOOR_Z) ELSE pr

pickupLamp(s, pr0, pr) ==
  IF isNearLamp(s, pr0) THEN handlePickupLamp([pr EXCEPT !.wearingLamp = TRUE]) ELSE pr

\* Mutant: on a window or the medal the flag is cleared without the callback.
dropLamp_flagOnly(s, pr0, pr) ==
  IF ~pr0.wearingLamp \/ ~hasPlatform(s.platform) THEN pr
  ELSE LET currentPlatform == getPlatform(s.platform)
       IN  CASE currentPlatform.type = "shelf" ->
                  handleDropLamp(s, [pr EXCEPT !.wearingLamp = FALSE],
                                 currentPlatform.position.x, currentPlatform.position.z)
             [] currentPlatform.type = "floor" ->
                  handleDropLamp(s, [pr EXCEPT !.wearingLamp = FALSE], s.floorX, FLOOR_Z)
             [] OTHER -> [pr EXCEPT !.wearingLamp = FALSE]

dropLamp(s, pr0, pr) ==
  IF ~pr0.wearingLamp \/ ~hasPlatform(s.platform) THEN pr
  ELSE LET currentPlatform == getPlatform(s.platform)
       IN  CASE currentPlatform.type = "shelf" ->
                  handleDropLamp(s, [pr EXCEPT !.wearingLamp = FALSE],
                                 currentPlatform.position.x, currentPlatform.position.z)
             [] currentPlatform.type = "floor" ->
                  handleDropLamp(s, [pr EXCEPT !.wearingLamp = FALSE], s.floorX, FLOOR_Z)
             [] OTHER -> pr

\* The 'd' and 'g' cases of handleKeyDown: always on the floor, elsewhere only
\* while isMoving is false.
propKeyDown(s, pr, key) ==
  IF ~hasPlatform(s.platform) THEN pr
  ELSE IF getPlatform(s.platform).type # "floor" /\ s.isMoving THEN pr
  ELSE CASE key = "d" -> dropLamp(s, pr, dropHat(s, pr, dropToy(s, pr, pr)))
         [] key = "g" -> pickupLamp(s, pr, pickupToy(s, pr, pickupHat(s, pr, pr)))
         [] OTHER -> pr

CommitProps(pr) ==
  /\ carryingToy' = pr.carryingToy
  /\ wearingHat' = pr.wearingHat
  /\ wearingLamp' = pr.wearingLamp
  /\ toyState' = pr.toyState
  /\ hatState' = pr.hatState
  /\ lampState' = pr.lampState
  /\ lastCallbacks' = pr.callbacks

Commit(s) ==
  /\ platform' = s.platform
  /\ recordIndex' = s.recordIndex
  /\ facing' = s.facing
  /\ isMoving' = s.isMoving
  /\ floorX' = s.floorX
  /\ keysPressed' = s.keysPressed
  /\ timers' = s.timers

\* ------------------------------------------------------------- avatar component
\* PlaceholderCat's refs as one record, for the effect and the frame callback.
Cat == [jump |-> jump, windowHang |-> windowHang]

\* catPosition of a render: the anchor of the platform, on a shelf moved next
\* to the current record, lowered onto the board and pulled to the front.
catPosition(s) ==
  LET platformData == getPlatform(s.platform)
      recordCount == Len(platformData.records)
      totalWidth == (recordCount - 1) * RECORD_SPACING
      startOffset == -(totalWidth \div 2)
      x == IF platformData.type = "shelf" /\ s.recordIndex # NULL
              /\ s.recordIndex < recordCount
           THEN platformData.position.x + startOffset + s.recordIndex * RECORD_SPACING
           ELSE platformData.position.x
  IN  [x |-> x,
       y |-> platformData.position.y + CAT_PLATFORM_DY,
       z |-> platformData.position.z + CAT_PLATFORM_DZ]

\* jumpRef.current.lastTarget = null: nothing rendered yet.
NoTarget == [x |-> NULL, y |-> NULL, z |-> NULL]

\* Mutant: a new jump leaves the hang phase as it is.
startJump_keepPhase(c, target) ==
  IF c.jump.lastTarget = NoTarget
  THEN [c EXCEPT !.jump.lastTarget = target]
  ELSE IF c.jump.lastTarget = target THEN c
  ELSE [c EXCEPT !.jump = [active |-> TRUE, t0 |-> -1, lastTarget |-> target]]

\* The effect on [platform, recordIndex, catPosition]: a render whose target
\* differs from the last one starts a jump and resets the hang phase.
startJump(c, target) ==
  IF c.jump.lastTarget = NoTarget
  THEN [c EXCEPT !.jump.lastTarget = target]
  ELSE IF c.jump.lastTarget = target THEN c
  ELSE [c EXCEPT !.jump = [active |-> TRUE, t0 |-> -1, lastTarget |-> target],
                 !.windowHang.phase = "none"]

\* "Land / cleanup" of the frame callback, at t >= 1.
landJump(c, now, type) ==
  [c EXCEPT !.jump.active = FALSE,
            !.windowHang = IF type = "window"
                           THEN [@ EXCEPT !.phase = "pausing", !.landedTime = now]
                           ELSE [@ EXCEPT !.phase = "none"]]

\* Mutant: the pause ends in the swinging phase at once.
hangPhase_skipTransition(h, now) ==
  IF h.phase = "pausing" /\ now - h.landedTime >= WINDOW_PAUSE_DURATION
  THEN [h EXCEPT !.phase = "swinging", !.swingStartTime = now]
  ELSE IF h.phase = "transitioning"
          /\ now - h.swingStartTime >= WINDOW_TRANSITION_DURATION
       THEN [h EXCEPT !.phase = "swinging"]
       ELSE h

\* "Phase transitions" of the frame callback, idle on a window.
hangPhase(h, now) ==
  IF h.phase = "pausing" /\ now - h.landedTime >= WINDOW_PAUSE_DURATION
  THEN [h EXCEPT !.phase = "transitioning", !.swingStartTime = now]
  ELSE IF h.phase = "transitioning"
          /\ now - h.swingStartTime >= WINDOW_TRANSITION_DURATION
       THEN [h EXCEPT !.phase = "swinging"]
       ELSE h

\* The useFrame callback at clock time now, on a platform of the given type.
useFrame(c, now, type) ==
  LET stamped == IF c.jump.active /\ c.jump.t0 < 0
                 THEN [c EXCEPT !.jump.t0 = now]
                 ELSE c
  IN  IF stamped.jump.active /\ stamped.jump.t0 >= 0
      THEN IF now - stamped.jump.t0 >= JUMP_DURATION_S
           THEN landJump(stamped, now, type)
           ELSE stamped
      ELSE IF type = "window" /\ stamped.windowHang.phase # "none"
           THEN [stamped EXCEPT !.windowHang = hangPhase(@, now)]
           ELSE IF type # "window"
                THEN [stamped EXCEPT !.windowHang.phase = "none"]
                ELSE stamped

CommitCat(c) ==
  /\ jump' = c.jump
  /\ windowHang' = c.windowHang

\* ------------------------------------------------------------- actions
\* A keydown event handled by the hook.
KeyPressed(key) ==
  /\ handleKeyDown(Nav, key).timers <= MaxTimers
  /\ key \in PropKeys => propKeysLeft > 0
  /\ propKeysLeft' = (IF key \in PropKeys THEN propKeysLeft - 1 ELSE propKeysLeft)
  /\ Commit(handleKeyDown(Nav, key))
  /\ IF key \in PropKeys
     THEN CommitProps(propKeyDown(Nav, Props, key))
     ELSE UNCHANGED propStateVars /\ lastCallbacks' = {}
  /\ lastEvent' = key
  /\ UNCHANGED <<specialObjectPositions, cacheVars, callVars, framesLeft>>

\* The hook alone.
KeyDown(key) == KeyPressed(key) /\ UNCHANGED catVars

\* The hook with the avatar component rendering its state: the commit that
\* follows the event runs the component's effect.
KeyDownRendered(key) ==
  /\ KeyPressed(key)
  /\ CommitCat(startJump(Cat, catPosition(handleKeyDown(Nav, key))))
  /\ UNCHANGED elapsedTime

\* One frame of the render loop, dt after the last one.
AnimationFrame(dt) ==
  /\ hasPlatform(platform)
  /\ elapsedTime + dt <= MaxElapsedTime
  /\ elapsedTime' = elapsedTime + dt
  /\ CommitCat(useFrame(Cat, elapsedTime + dt, getPlatform(platform).type))
  /\ UNCHANGED <<platform, recordIndex, facing, isMoving, floorX, keysPressed, timers>>
  /\ lastEvent' = "none"
  /\ UNCHANGED <<propStateVars, sessionVars>>
  /\ lastCallbacks' = {}
  /\ UNCHANGED <<specialObjectPositions, cacheVars, callVars>>

KeyUp(key) ==
  /\ Commit(handleKeyUp(Nav, key))
  /\ UNCHANGED propStateVars
  /\ lastCallbacks' = {}
  /\ lastEvent' = "none"
  /\ UNCHANGED <<specialObjectPositions, catVars, cacheVars, callVars, sessionVars>>

\* The animation loop runs only while the current platform is the floor.
FloorTick ==
  /\ hasPlatform(platform)
  /\ getPlatform(platform).type = "floor"
  /\ framesLeft # 0
  /\ framesLeft' = (IF framesLeft = NULL THEN NULL ELSE framesLeft - 1)
  /\ Commit(moveOnFloor(Nav))
  /\ UNCHANGED propStateVars
  /\ lastCallbacks' = {}
  /\ lastEvent' = "tick"
  /\ UNCHANGED <<specialObjectPositions, catVars, cacheVars, callVars, propKeysLeft>>

TimerFire ==
  /\ timers > 0
  /\ Commit(timerExpired(Nav))
  /\ UNCHANGED propStateVars
  /\ lastCallbacks' = {}
  /\ lastEvent' = "none"
  /\ UNCHANGED <<specialObjectPositions, catVars, cacheVars, callVars, sessionVars>>

\* A call of generatePlatforms(trackCount); the call may be kept as the
\* reference an identical later call is compared with.
GeneratePlatforms(trackCount, keep) ==
  LET r == generatePlatforms(cachedPlatforms, cachedTrackCount, trackCount)
  IN  /\ cachedPlatforms' = r.cachedPlatforms
      /\ cachedTrackCount' = r.cachedTrackCount
      /\ lastTrackCount' = trackCount
      /\ lastResult' = r.result
      /\ lastHit' = cacheHit(cachedPlatforms, cachedTrackCount, trackCount)
      /\ IF keep
         THEN refTrackCount' = trackCount /\ refResult' = r.result /\ refEarlier' = FALSE
         ELSE refEarlier' = (refTrackCount # NULL) /\ UNCHANGED <<refTrackCount, refResult>>
      /\ UNCHANGED <<specialObjectPositions, catVars, navVars, propVars, sessionVars>>

TrackCounts == 0..MaxTrackCount

\* The rooms the avatar is walked through: an empty playlist, a single track
\* (no bottom shelf), the hook's default trackCount = 5, and a room whose
\* windows and medal case are connected.
RoomTrackCounts == {0, 1, 5, MaxRoomTracks}

InitNav ==
  /\ platform = FLOOR_PLATFORM_ID
  /\ recordIndex = NULL
  /\ facing = "right"
  /\ isMoving = FALSE
  /\ floorX = 0
  /\ keysPressed = {}
  /\ timers = 0
  /\ lastEvent = "none"

\* The props as the page mounts them, none held.
InitPropState ==
  /\ carryingToy = FALSE
  /\ wearingHat = FALSE
  /\ wearingLamp = FALSE
  /\ toyState = [position |-> INITIAL_TOY_POSITION, isCarried |-> FALSE]
  /\ hatState = [position |-> INITIAL_HAT_POSITION, isWorn |-> FALSE]
  /\ lampState = [position |-> INITIAL_LAMP_POSITION, isWorn |-> FALSE]
  /\ lastCallbacks = {}

\* The avatar component after its first effect: at its target, no jump.
InitCat ==
  /\ jump = [active |-> FALSE, t0 |-> 0,
             lastTarget |-> IF hasPlatform(platform) THEN catPosition(Nav) ELSE NoTarget]
  /\ windowHang = [phase |-> "none", landedTime |-> 0, swingStartTime |-> 0]
  /\ elapsedTime = 0

InitCalls ==
  /\ lastTrackCount = NULL
  /\ lastResult = NoPlatforms
  /\ refTrackCount = NULL
  /\ refResult = NoPlatforms
  /\ lastHit = FALSE
  /\ refEarlier = FALSE

\* The room after mount: the platforms of its track count are cached.
InitSession(trackCounts, frames, propKeys) ==
  /\ specialObjectPositions = SPECIAL_OBJECT_POSITIONS
  /\ \E n \in trackCounts :
       /\ cachedPlatforms = buildPlatforms(SPECIAL_OBJECT_POSITIONS, n)
       /\ cachedTrackCount = n
  /\ InitCalls
  /\ InitNav
  /\ InitPropState
  /\ InitCat
  /\ framesLeft = frames
  /\ propKeysLeft = propKeys

\* A session of arrow keys alone, of any number of animation frames.
InitRoom(trackCounts) == InitSession(trackCounts, NULL, 0)

Init == InitRoom(RoomTrackCounts)

Next ==
  \/ \E key \in ArrowKeys : KeyDown(key)
  \/ \E key \in {"ArrowLeft", "ArrowRight"} : KeyUp(key)
  \/ FloorTick
  \/ TimerFire

Spec == Init /\ [][Next]_vars

\* The same avatar in the largest room, whose rightmost shelves lie beyond
\* FLOOR_BOUNDS.maxX.
InitWide == InitRoom({MaxTrackCount})

SpecWide == InitWide /\ [][Next]_vars

\* Timers fire: a pending setTimeout callback is eventually run.
\* Checked in the smallest room with a top and a bottom shelf.
InitLive == InitRoom({2})

SpecLive == InitLive /\ [][Next]_vars /\ WF_vars(TimerFire)

\* The platform module after load, with a given list of special objects.
InitModule(config) ==
  /\ specialObjectPositions = config
  /\ cachedPlatforms = NoPlatforms
  /\ cachedTrackCount = 0
  /\ InitCalls
  /\ InitNav
  /\ InitPropState
  /\ InitCat
  /\ framesLeft = NULL
  /\ propKeysLeft = 0

\* The module as shipped, called with any track counts.
InitGraph == InitModule(SPECIAL_OBJECT_POSITIONS)

NextGraph == \E n \in TrackCounts, keep \in BOOLEAN : GeneratePlatforms(n, keep)

SpecGraph == InitGraph /\ [][NextGraph]_vars

\* The platform module called with any integer, negative ones included.
AnyTrackCounts == (-MaxNegative)..MaxTrackCount

NextGraphAny == \E n \in AnyTrackCounts, keep \in BOOLEAN : GeneratePlatforms(n, keep)

SpecGraphAny == InitGraph /\ [][NextGraphAny]_vars

\* Lists of special objects with a collision: the shipped list with one more
\* object, of either type, put somewhere after an object of the same cell.
InsertAt(seq, i, e) == SubSeq(seq, 1, i - 1) \o <<e>> \o SubSeq(seq, i, Len(seq))

CollidingPositions ==
  {InsertAt(SPECIAL_OBJECT_POSITIONS, i,
            [type |-> t, row |-> SPECIAL_OBJECT_POSITIONS[j].row,
                         col |-> SPECIAL_OBJECT_POSITIONS[j].col]) :
     <<j, i>> \in {ji \in (1..Len(SPECIAL_OBJECT_POSITIONS))
                            \X (2..(Len(SPECIAL_OBJECT_POSITIONS) + 1)) : ji[1] < ji[2]},
     t \in {"window", "medal"}}

\* The platform module loaded with one of these lists and called with the
\* track counts of the rooms.
InitColliding ==
  \E config \in CollidingPositions \cup {SPECIAL_OBJECT_POSITIONS} : InitModule(config)

NextColliding == \E n \in RoomTrackCounts, keep \in BOOLEAN : GeneratePlatforms(n, keep)

SpecColliding == InitColliding /\ [][NextColliding]_vars

\* The avatar drawn by PlaceholderCat in the smallest room whose first window
\* can be reached and left again: keys, timers and frames of one or
\* MaxFrameStep tenths of a second.
FrameSteps == {1, MaxFrameStep}

InitHang == InitRoom({3})

NextHang ==
  \/ \E key \in ArrowKeys : KeyDownRendered(key)
  \/ TimerFire
  \/ \E dt \in FrameSteps : AnimationFrame(dt)

SpecHang == InitHang /\ [][NextHang]_vars

\* The avatar and the props in the room whose bottom shelf at column 3 is
\* next to the lamp, for a session of MaxFrames floor animation frames and
\* MaxPropKeys pickup/drop key presses.
InitProps == InitSession({MaxRoomTracks}, MaxFrames, MaxPropKeys)

NextProps ==
  \/ \E key \in ArrowKeys \cup PropKeys : KeyDown(key)
  \/ \E key \in {"ArrowLeft", "ArrowRight"} : KeyUp(key)
  \/ FloorTick
  \/ TimerFire

SpecProps == InitProps /\ [][NextProps]_vars

\* ------------------------------------------------------------- graph claims
Directions == {"left", "right", "up", "down"}

\* The places (platform id, position in its records list) holding track t.
PlacesOf(platforms, t) ==
  {pl \in UNION {{<<id, i>> : i \in 1..Len(platforms[id].records)} : id \in DOMAIN platforms} :
     platforms[pl[1]].records[pl[2]] = t}

\* C1: the set returned by generatePlatforms(n) holds every track index
\* 0..n-1 in exactly one platform's records list, once, and no records list
\* holds any other index.
C1_EveryTrackOnce ==
  lastTrackCount # NULL =>
    /\ \A t \in 0..(lastTrackCount - 1) : Cardinality(PlacesOf(lastResult, t)) = 1
    /\ \A id \in DOMAIN lastResult : \A i \in 1..Len(lastResult[id].records) :
         lastResult[id].records[i] \in 0..(lastTrackCount - 1)

C1_Witness ==
  /\ lastTrackCount = MaxTrackCount
  /\ \E id \in DOMAIN lastResult : lastResult[id].records = <<MaxTrackCount - 1>>

\* C2: every connection of every platform returned by generatePlatforms(n) is
\* null or the id of a platform of the same set, the floor id included.
C2_NoDanglingEdges ==
  \A id \in DOMAIN lastResult : \A d \in Directions :
    \/ lastResult[id].connections[d] = NULL
    \/ lastResult[id].connections[d] \in DOMAIN lastResult

C2_Witness ==
  /\ lastTrackCount = 5
  /\ \E id \in DOMAIN lastResult :
       /\ lastResult[id].connections.down = FLOOR_PLATFORM_ID
       /\ lastResult[id].connections.up \in DOMAIN lastResult
       /\ lastResult[id].connections.right = NULL

\* C10: a call of generatePlatforms(n) returns the same platform set as an
\* earlier call with the same n, served from the cache or rebuilt.
C10_Deterministic ==
  (refTrackCount # NULL /\ refTrackCount = lastTrackCount) => lastResult = refResult

\* The kept call came earlier, and the latest call with the same count had to
\* rebuild because calls in between replaced the cache.
C10_Witness ==
  /\ refEarlier
  /\ refTrackCount = lastTrackCount
  /\ ~lastHit
  /\ lastResult # NoPlatforms

\* A configured special object sits in the cell (row, col).
IsSpecialCell(row, col) ==
  \E i \in 1..Len(SPECIAL_OBJECT_POSITIONS) :
    SPECIAL_OBJECT_POSITIONS[i].row = row /\ SPECIAL_OBJECT_POSITIONS[i].col = col

\* The number of free cells visited before (row, col): column by column from
\* the left, row 0 before row 1.
FreeCellsBefore(row, col) ==
  Cardinality({c \in (0..(ROWS - 1)) \X (0..col) :
                 /\ ~IsSpecialCell(c[1], c[2])
                 /\ c[2] * ROWS + c[1] < col * ROWS + row})

\* C11: the set built for n >= 0 has exactly one floor platform (id -1,
\* type floor, no records) and exactly n shelves; each shelf holds exactly one
\* track index, the k-th free cell in column order (row 0 before row 1) holding
\* index k; every other platform lies in row 0 or row 1.
C11_ShelvesInCellOrder ==
  (lastTrackCount # NULL /\ lastTrackCount >= 0) =>
    LET floors == {id \in DOMAIN lastResult : lastResult[id].type = "floor"}
        shelves == {id \in DOMAIN lastResult : lastResult[id].type = "shelf"}
    IN  /\ floors = {FLOOR_PLATFORM_ID}
        /\ lastResult[FLOOR_PLATFORM_ID].id = FLOOR_PLATFORM_ID
        /\ lastResult[FLOOR_PLATFORM_ID].records = <<>>
        /\ Cardinality(shelves) = lastTrackCount
        /\ \A id \in shelves :
             /\ Len(lastResult[id].records) = 1
             /\ ~IsSpecialCell(lastResult[id].grid.row, lastResult[id].grid.col)
             /\ lastResult[id].records[1] =
                  FreeCellsBefore(lastResult[id].grid.row, lastResult[id].grid.col)
        /\ \A id \in DOMAIN lastResult \ floors : lastResult[id].grid.row \in {0, 1}

\* Nine tracks: the last one sits at row 1, column 5, after the window cells
\* (0, 2), (0, 5) and the medal cell (1, 4) were passed over.
C11_Witness ==
  /\ lastTrackCount = 9
  /\ \E id \in DOMAIN lastResult :
       /\ lastResult[id].type = "shelf"
       /\ lastResult[id].grid = [row |-> 1, col |-> 5]
       /\ lastResult[id].records = <<8>>

\* The platforms of the set lying in the row of p strictly to the left
\* (side = "left") or right (side = "right") of p.
RowSide(platforms, p, side) ==
  {q \in DOMAIN platforms :
     /\ q # FLOOR_PLATFORM_ID
     /\ platforms[q].grid.row = platforms[p].grid.row
     /\ IF side = "left" THEN platforms[q].grid.col < platforms[p].grid.col
                         ELSE platforms[q].grid.col > platforms[p].grid.col}

\* The nearest of them, or null when there is none.
NearestInRow(platforms, p, side) ==
  LET candidates == RowSide(platforms, p, side)
  IN  IF candidates = {} THEN NULL
      ELSE CHOOSE q \in candidates :
             \A r \in candidates :
               Abs(platforms[q].grid.col - platforms[p].grid.col)
                 <= Abs(platforms[r].grid.col - platforms[p].grid.col)

\* C20: for every non-floor platform p of a built set, connections.left (resp.
\* right) is the nearest platform strictly to the left (resp. right) of p in
\* its row, windows and the medal counting, and null only if there is none.
C20_NearestNeighbours ==
  lastTrackCount # NULL =>
    \A p \in DOMAIN lastResult \ {FLOOR_PLATFORM_ID} :
      /\ lastResult[p].connections.left = NearestInRow(lastResult, p, "left")
      /\ lastResult[p].connections.right = NearestInRow(lastResult, p, "right")

\* The non-floor platforms of a set, and the one in the cell (row, col), if any.
NonFloor(platforms) == DOMAIN platforms \ {FLOOR_PLATFORM_ID}

At(platforms, row, col) ==
  {q \in NonFloor(platforms) : platforms[q].grid = [row |-> row, col |-> col]}

\* The special objects of row `row` nearest to column col.
NearestSpecials(platforms, row, col) ==
  LET specials == {q \in NonFloor(platforms) :
                     /\ platforms[q].type \in {"window", "medal"}
                     /\ platforms[q].grid.row = row}
  IN  {q \in specials : \A r \in specials :
         Abs(platforms[q].grid.col - col) <= Abs(platforms[r].grid.col - col)}

\* C21: in every built set the down connection of a row-1 platform is the
\* floor sentinel; that of a row-0 platform is the platform directly below it
\* in row 1 if there is one, otherwise the nearest special object of row 1,
\* otherwise null.
C21_DownConnections ==
  lastTrackCount # NULL =>
    \A p \in NonFloor(lastResult) :
      LET row == lastResult[p].grid.row
          col == lastResult[p].grid.col
          down == lastResult[p].connections.down
      IN  /\ row = 1 => down = FLOOR_PLATFORM_ID
          /\ row = 0 =>
               IF At(lastResult, 1, col) # {} THEN down \in At(lastResult, 1, col)
               ELSE IF NearestSpecials(lastResult, 1, col) # {}
                    THEN down \in NearestSpecials(lastResult, 1, col)
                    ELSE down = NULL

\* C22: in every built set the up connection of a row-1 platform is the
\* platform directly above it in row 0 (shelf or special object) if there is
\* one and null otherwise; row-0 platforms and the floor have up = null.
C22_UpConnections ==
  lastTrackCount # NULL =>
    /\ lastResult[FLOOR_PLATFORM_ID].connections.up = NULL
    /\ \A p \in NonFloor(lastResult) :
         LET row == lastResult[p].grid.row
             col == lastResult[p].grid.col
             up == lastResult[p].connections.up
         IN  /\ row = 0 => up = NULL
             /\ row = 1 => IF At(lastResult, 0, col) # {}
                           THEN up \in At(lastResult, 0, col)
                           ELSE up = NULL

\* Eight tracks: the medal in row 1 has the shelf of track 7 above it, and
\* the bottom shelf at column 2 has a window above it.
C22_Witness ==
  /\ lastTrackCount = 8
  /\ \E m \in NonFloor(lastResult), w \in NonFloor(lastResult) :
       /\ lastResult[m].type = "medal"
       /\ lastResult[m].connections.up # NULL
       /\ lastResult[lastResult[m].connections.up].records = <<7>>
       /\ lastResult[w].type = "shelf"
       /\ lastResult[w].connections.up # NULL
       /\ lastResult[lastResult[w].connections.up].type = "window"

\* C29: in every built set, for A in row 0 and B in row 1,
\* A.connections.down = B.id exactly when B.connections.up = A.id.
C29_VerticalSymmetry ==
  lastTrackCount # NULL =>
    \A a \in NonFloor(lastResult), b \in NonFloor(lastResult) :
      (lastResult[a].grid.row = 0 /\ lastResult[b].grid.row = 1) =>
        ((lastResult[a].connections.down = b) <=> (lastResult[b].connections.up = a))

\* Nine tracks: the window at column 5 and the shelf below it point at each
\* other, as do the shelf at (0, 4) and the medal.
C29_Witness ==
  /\ lastTrackCount = 9
  /\ \E a \in NonFloor(lastResult), b \in NonFloor(lastResult) :
       /\ lastResult[a].type = "window"
       /\ lastResult[b].type = "shelf"
       /\ lastResult[a].connections.down = b
       /\ lastResult[b].connections.up = a
  /\ \E a \in NonFloor(lastResult), b \in NonFloor(lastResult) :
       /\ lastResult[a].type = "shelf"
       /\ lastResult[b].type = "medal"
       /\ lastResult[a].connections.down = b
       /\ lastResult[b].connections.up = a

\* C16: a call of generatePlatforms with a negative trackCount returns no
\* platform set and leaves the cached set and the cached count unchanged.
C16_RejectsNegative ==
  [][ lastTrackCount' \in (-MaxNegative)..(-1) =>
        /\ lastResult' = NoPlatforms
        /\ cachedPlatforms' = cachedPlatforms
        /\ cachedTrackCount' = cachedTrackCount ]_vars

\* ------------------------------------------------------------- navigation claims
OnFloor == hasPlatform(platform) /\ getPlatform(platform).type = "floor"
OnPlatform == hasPlatform(platform) /\ getPlatform(platform).type # "floor"
InFloorBounds(x) == FLOOR_MIN_X <= x /\ x <= FLOOR_MAX_X

\* C3: in every reachable navigation state floorX lies within
\* [FLOOR_BOUNDS.minX, FLOOR_BOUNDS.maxX], also right after an ArrowDown jump
\* from a row-1 platform to the floor.
C3_FloorXInBounds == InFloorBounds(floorX)

\* C4: an arrow key handled while isMoving is true changes neither platform
\* nor recordIndex and starts no move timer, and platform changes only in the
\* handling of an arrow key pressed while isMoving is false (a dropped request
\* is not replayed later).
C4_JumpGating ==
  [][ /\ (isMoving /\ lastEvent' \in ArrowKeys) =>
           (platform' = platform /\ recordIndex' = recordIndex /\ timers' = timers)
      /\ (platform' # platform) => (lastEvent' \in ArrowKeys /\ ~isMoving) ]_vars

\* ArrowUp was pressed on the floor while a jump was in flight, and dropped.
C4_Witness ==
  /\ OnFloor
  /\ lastEvent = "ArrowUp"
  /\ isMoving
  /\ timers > 0
  /\ findClosestBottomShelf(floorX) # NULL

\* C5: while the move-duration timer of the latest accepted jump is pending
\* (timers of equal duration fire in the order they were started), isMoving
\* is true.
C5_MovingUntilOwnTimer == timers > 0 => isMoving

\* C6: after every accepted jump isMoving eventually becomes false with no
\* further input, provided timers fire.
C6_EventuallyIdle == (timers > 0) ~> (~isMoving)

\* A jump onto a shelf, window or medal is in flight.
C6_Witness == OnPlatform /\ isMoving /\ timers > 0

\* C7: after every ArrowLeft/ArrowRight keydown, facing is the pressed
\* direction, in every state including isMoving on a shelf, window or medal.
C7_FacingFollowsIntent ==
  /\ lastEvent = "ArrowLeft" => facing = "left"
  /\ lastEvent = "ArrowRight" => facing = "right"

\* C8: on a shelf, window or medal with isMoving false, an arrow key toward a
\* null connection leaves platform, recordIndex, floorX and isMoving unchanged
\* and starts no timer; ArrowLeft/ArrowRight set facing to the pressed
\* direction, ArrowUp/ArrowDown leave it alone.
C8_DeadEnd ==
  [][ ( /\ lastEvent' \in ArrowKeys
        /\ ~isMoving
        /\ OnPlatform
        /\ getPlatform(platform).connections[
             CASE lastEvent' = "ArrowLeft" -> "left"
               [] lastEvent' = "ArrowRight" -> "right"
               [] lastEvent' = "ArrowUp" -> "up"
               [] OTHER -> "down"] = NULL )
      => ( /\ platform' = platform
           /\ recordIndex' = recordIndex
           /\ floorX' = floorX
           /\ isMoving' = isMoving
           /\ timers' = timers
           /\ lastEvent' = "ArrowLeft" => facing' = "left"
           /\ lastEvent' = "ArrowRight" => facing' = "right"
           /\ lastEvent' \in {"ArrowUp", "ArrowDown"} => facing' = facing ) ]_vars

\* ArrowRight was pressed at a right dead end while facing left.
C8_Witness ==
  /\ OnPlatform
  /\ lastEvent = "ArrowRight"
  /\ ~isMoving
  /\ timers = 0
  /\ getPlatform(platform).connections.right = NULL
  /\ getPlatform(platform).connections.left # NULL
  /\ facing = "right"

\* C9: a floor tick that starts with floorX in [minX, maxX] yields
\* max(minX, floorX - 0.15) when ArrowLeft is held, min(maxX, floorX + 0.15)
\* when only ArrowRight is held, and stays in [minX, maxX].
C9_TickClamps ==
  [][ (lastEvent' = "tick" /\ InFloorBounds(floorX)) =>
        /\ "ArrowLeft" \in keysPressed =>
             floorX' = (IF floorX - FLOOR_MOVE_SPEED < FLOOR_MIN_X
                        THEN FLOOR_MIN_X ELSE floorX - FLOOR_MOVE_SPEED)
        /\ ("ArrowRight" \in keysPressed /\ "ArrowLeft" \notin keysPressed) =>
             floorX' = (IF floorX + FLOOR_MOVE_SPEED > FLOOR_MAX_X
                        THEN FLOOR_MAX_X ELSE floorX + FLOOR_MOVE_SPEED)
        /\ InFloorBounds(floorX') ]_vars

\* A left tick at floorX = minX: nothing moved, so isMoving was not set.
C9_Witness ==
  /\ OnFloor
  /\ lastEvent = "tick"
  /\ floorX = FLOOR_MIN_X
  /\ "ArrowLeft" \in keysPressed
  /\ ~isMoving

\* C12: recordIndex is null exactly when the current platform is not a shelf;
\* on a shelf it is 0, the index every landing selects, and a valid index into
\* the shelf's records, so currentTrackIndex is the track of the shelf the
\* avatar stands on and null elsewhere.
C12_RecordIndexMatchesPlatform ==
  /\ hasPlatform(platform)
  /\ (recordIndex = NULL) <=> (getPlatform(platform).type # "shelf")
  /\ getPlatform(platform).type = "shelf" =>
       /\ recordIndex = 0
       /\ recordIndex < Len(getPlatform(platform).records)
       /\ currentTrackIndex(Nav) = getPlatform(platform).records[recordIndex + 1]
       /\ currentTrackIndex(Nav) \in 0..(cachedTrackCount - 1)
  /\ getPlatform(platform).type # "shelf" => currentTrackIndex(Nav) = NULL

\* The avatar went down from a window onto the shelf of track 4.
C12_Witness ==
  /\ OnPlatform
  /\ getPlatform(platform).type = "shelf"
  /\ lastEvent = "ArrowDown"
  /\ currentTrackIndex(Nav) = 4

OnWindow == OnPlatform /\ getPlatform(platform).type = "window"

\* C17: on a window, at rest, every arrow key does the same thing: the avatar
\* jumps to the window's connections.right, or stays where it is when
\* connections.right is null.
C17_WindowAlwaysRight ==
  [][ (lastEvent' \in ArrowKeys /\ OnWindow /\ ~isMoving) =>
        platform' = (IF getPlatform(platform).connections.right # NULL
                     THEN getPlatform(platform).connections.right
                     ELSE platform) ]_vars

\* C18: the avatar never stands on a platform whose four connections are all
\* null, a platform no key lets it leave.
C18_NeverStranded ==
  OnPlatform => \E d \in Directions : getPlatform(platform).connections[d] # NULL

\* C23: an ArrowDown pressed at rest on a non-floor platform whose down
\* connection is the floor sentinel leaves the avatar on the floor with
\* recordIndex null and floorX equal to the x of the platform it left.
C23_DownToFloor ==
  [][ (/\ lastEvent' = "ArrowDown"
       /\ OnPlatform
       /\ ~isMoving
       /\ getPlatform(platform).connections.down = FLOOR_PLATFORM_ID) =>
        /\ platform' = FLOOR_PLATFORM_ID
        /\ recordIndex' = NULL
        /\ floorX' = getPlatform(platform).position.x ]_vars

\* The avatar has just come down to the floor below a row-1 platform that is
\* not above the floor's starting point.
C23_Witness ==
  /\ lastEvent = "ArrowDown"
  /\ OnFloor
  /\ isMoving
  /\ recordIndex = NULL
  /\ floorX # 0
  /\ \E q \in NonFloor(cachedPlatforms) :
       /\ cachedPlatforms[q].connections.down = FLOOR_PLATFORM_ID
       /\ cachedPlatforms[q].position.x = floorX

\* The row-1 shelves of the room, those nearest to x, and the lowest id of a set.
BottomShelves ==
  {q \in NonFloor(cachedPlatforms) :
     cachedPlatforms[q].type = "shelf" /\ cachedPlatforms[q].grid.row = 1}

ClosestBottomShelves(x) ==
  {q \in BottomShelves : \A r \in BottomShelves :
     Abs(x - cachedPlatforms[q].position.x) <= Abs(x - cachedPlatforms[r].position.x)}

LowestId(ids) == CHOOSE q \in ids : \A r \in ids : q <= r

\* C24: ArrowUp on the floor with isMoving false jumps to the row-1 shelf
\* whose x is nearest to floorX, the lowest id winning a tie, with
\* recordIndex 0 and floorX unchanged; without a row-1 shelf nothing changes.
C24_UpToNearestShelf ==
  [][ (lastEvent' = "ArrowUp" /\ OnFloor /\ ~isMoving) =>
        IF BottomShelves = {}
        THEN /\ platform' = platform
             /\ recordIndex' = recordIndex
             /\ floorX' = floorX
             /\ isMoving' = isMoving
             /\ facing' = facing
             /\ keysPressed' = keysPressed
        ELSE /\ platform' = LowestId(ClosestBottomShelves(floorX))
             /\ recordIndex' = 0
             /\ floorX' = floorX ]_vars

\* The avatar has jumped up from a point of the floor halfway between two
\* row-1 shelves and stands on the one with the lower id.
C24_Witness ==
  /\ lastEvent = "ArrowUp"
  /\ isMoving
  /\ Cardinality(ClosestBottomShelves(floorX)) = 2
  /\ platform = LowestId(ClosestBottomShelves(floorX))
  /\ recordIndex = 0

\* C25: a frame of the floor loop runs only on the floor; when it changes
\* floorX a directional key is held and isMoving becomes true; when neither
\* key is held (as in the first frame after the last held key is released) it
\* clears isMoving and leaves floorX unchanged; off the floor no frame
\* changes floorX.
C25_FloorTicks ==
  [][ lastEvent' = "tick" =>
        /\ OnFloor
        /\ floorX' # floorX =>
             isMoving' /\ keysPressed \cap {"ArrowLeft", "ArrowRight"} # {}
        /\ ("ArrowLeft" \in keysPressed /\ floorX > FLOOR_MIN_X) =>
             floorX' < floorX /\ isMoving'
        /\ ("ArrowLeft" \notin keysPressed /\ "ArrowRight" \in keysPressed
              /\ floorX < FLOOR_MAX_X) =>
             floorX' > floorX /\ isMoving'
        /\ keysPressed \cap {"ArrowLeft", "ArrowRight"} = {} =>
             ~isMoving' /\ floorX' = floorX ]_vars

\* The avatar walked away from the starting point, the key was released and
\* the frame that followed stopped the walk.
C25_Witness ==
  /\ lastEvent = "tick"
  /\ OnFloor
  /\ keysPressed = {}
  /\ ~isMoving
  /\ timers = 0
  /\ floorX = 2 * FLOOR_MOVE_SPEED

\* The avatar at rest on platform p, with floor position x.
AtRest(p, x) ==
  [platform |-> p, recordIndex |-> landingRecordIndex(getPlatform(p).type),
   facing |-> "right", isMoving |-> FALSE, floorX |-> x, keysPressed |-> {},
   timers |-> 0]

\* The platforms one arrow key leads to from p; on the floor the avatar may
\* have walked to any x within the floor bounds first.
KeyTargets(p) ==
  {handleKeyDown(AtRest(p, x), key).platform :
     key \in ArrowKeys,
     x \in (IF p = FLOOR_PLATFORM_ID THEN FLOOR_MIN_X..FLOOR_MAX_X ELSE {0})}

RECURSIVE ReachableFrom(_)
ReachableFrom(visited) ==
  LET more == visited \cup UNION {KeyTargets(p) : p \in visited}
  IN  IF more = visited THEN visited ELSE ReachableFrom(more)

\* C19: in a room of n >= 1 tracks every shelf can be reached from the floor
\* by floor walking, the floor's ArrowUp jump and the graph connections.
C19_EveryShelfReachable ==
  cachedTrackCount >= 1 =>
    \A id \in DOMAIN cachedPlatforms :
      cachedPlatforms[id].type = "shelf" => id \in ReachableFrom({FLOOR_PLATFORM_ID})

\* ------------------------------------------------------------- prop claims
\* Where the avatar is: its floor position on the floor, next to the current
\* platform's anchor elsewhere (the position isNearLamp computes).
AvatarPosition == catLampPos(Nav)

\* C13: a pickup of the toy, hat or lamp succeeds only if the prop is not
\* held/worn and the avatar's position (on the floor, or at its platform) is
\* within PICKUP_DISTANCE of the prop on each of the x, y and z axes; a drop
\* succeeds only if the prop is held/worn.
C13_PickupDropLegal ==
  [][ /\ "onPickupToy" \in lastCallbacks' =>
           /\ ~carryingToy /\ ~toyState.isCarried
           /\ areObjectsNear(AvatarPosition, toyState.position)
      /\ "onPickupHat" \in lastCallbacks' =>
           /\ ~wearingHat /\ ~hatState.isWorn
           /\ areObjectsNear(AvatarPosition, hatState.position)
      /\ "onPickupLamp" \in lastCallbacks' =>
           /\ ~wearingLamp /\ ~lampState.isWorn
           /\ areObjectsNear(AvatarPosition, lampState.position)
      /\ "onDropToy" \in lastCallbacks' => carryingToy
      /\ "onDropHat" \in lastCallbacks' => wearingHat
      /\ "onDropLamp" \in lastCallbacks' => wearingLamp ]_vars

\* The x/z a prop dropped now must get: (floorX, FLOOR_Z) on the floor, the
\* anchor of the shelf on a shelf.
DropsAtAnchor(position) ==
  /\ OnFloor => (position.x = floorX /\ position.z = FLOOR_Z)
  /\ (OnPlatform /\ getPlatform(platform).type = "shelf") =>
       /\ position.x = getPlatform(platform).position.x
       /\ position.z = getPlatform(platform).position.z

\* C14: on every successful drop of the toy, hat or lamp the prop's new x/z
\* is the avatar's current anchor: (floorX, FLOOR_Z) on the floor, the shelf's
\* anchor x/z on a shelf.
C14_DropAtAnchor ==
  [][ /\ "onDropToy" \in lastCallbacks' => DropsAtAnchor(toyState'.position)
      /\ "onDropHat" \in lastCallbacks' => DropsAtAnchor(hatState'.position)
      /\ "onDropLamp" \in lastCallbacks' => DropsAtAnchor(lampState'.position) ]_vars

NothingHeld == ~carryingToy /\ ~wearingHat /\ ~wearingLamp
NothingNear == ~isNearToy(Nav, Props) /\ ~isNearHat(Nav, Props) /\ ~isNearLamp(Nav, Props)

C28_FlagsAgree ==
  /\ carryingToy = toyState.isCarried
  /\ wearingHat = hatState.isWorn
  /\ wearingLamp = lampState.isWorn

\* The drop key was pressed at rest on a window or the medal while the lamp
\* was worn: the lamp stays on, in the flag and in the page's state.
C28_Witness ==
  /\ lastEvent = "d"
  /\ OnPlatform
  /\ getPlatform(platform).type \in {"window", "medal"}
  /\ ~isMoving
  /\ wearingLamp
  /\ lampState.isWorn
  /\ lastCallbacks = {}

\* The entries of the list that come first for their cell, and the number of
\* such entries before entry i: the id entry i gets when it is one of them.
FirstListed ==
  {i \in 1..Len(specialObjectPositions) :
     \A j \in 1..(i - 1) :
       \/ specialObjectPositions[j].row # specialObjectPositions[i].row
       \/ specialObjectPositions[j].col # specialObjectPositions[i].col}

Collides == FirstListed # 1..Len(specialObjectPositions)

FirstListedBefore(i) == Cardinality({j \in FirstListed : j < i})

\* C30: when the list of special objects names a cell twice, only the first
\* object listed for the cell becomes a platform: the later one is skipped,
\* the build goes on (the objects after it, every track and the floor are
\* there), no id is used up (the ids are 0, 1, 2, ... without a gap), and the
\* cell holds exactly one platform, of the first object's type.
C30_CollisionSkipped ==
  (lastTrackCount # NULL /\ Collides) =>
    /\ \A i \in FirstListed :
         /\ FirstListedBefore(i) \in NonFloor(lastResult)
         /\ lastResult[FirstListedBefore(i)].type = specialObjectPositions[i].type
         /\ At(lastResult, specialObjectPositions[i].row, specialObjectPositions[i].col)
              = {FirstListedBefore(i)}
    /\ NonFloor(lastResult) = 0..(Cardinality(FirstListed) + lastTrackCount - 1)
    /\ \A t \in 0..(lastTrackCount - 1) :
         \E q \in NonFloor(lastResult) :
           lastResult[q].type = "shelf" /\ lastResult[q].records = <<t>>
    /\ FLOOR_PLATFORM_ID \in DOMAIN lastResult

\* A medal listed second for the cell of the first window and before the
\* other objects, in the room of five tracks: the cell holds the window.
C30_Witness ==
  /\ lastTrackCount = 5
  /\ Len(specialObjectPositions) = 4
  /\ specialObjectPositions[2] = [type |-> "medal", row |-> 0, col |-> 2]
  /\ \A q \in At(lastResult, 0, 2) : lastResult[q].type = "window"
  /\ At(lastResult, 0, 2) # {}

\* ------------------------------------------------------------- avatar component claims
\* C26: the hang phase changes only along none -> pausing -> transitioning ->
\* swinging, or back to none. pausing is entered only by the frame in which a
\* jump completes on a window, which stamps the landing time; transitioning
\* only from pausing, at least WINDOW_PAUSE_DURATION after the landing;
\* swinging only from transitioning, at least WINDOW_TRANSITION_DURATION
\* after transitioning began. The two stamps are kept while a phase lasts.
C26_HangPhaseOrder ==
  [][ /\ windowHang'.phase # windowHang.phase =>
           CASE windowHang'.phase = "pausing" ->
                  /\ windowHang.phase = "none"
                  /\ jump.active /\ ~jump'.active
                  /\ getPlatform(platform').type = "window"
                  /\ windowHang'.landedTime = elapsedTime'
             [] windowHang'.phase = "transitioning" ->
                  /\ windowHang.phase = "pausing"
                  /\ elapsedTime' - windowHang.landedTime >= WINDOW_PAUSE_DURATION
                  /\ windowHang'.swingStartTime = elapsedTime'
             [] windowHang'.phase = "swinging" ->
                  /\ windowHang.phase = "transitioning"
                  /\ elapsedTime' - windowHang.swingStartTime >= WINDOW_TRANSITION_DURATION
             [] OTHER -> windowHang'.phase = "none"
      /\ (windowHang'.phase = windowHang.phase /\ windowHang.phase # "none") =>
           /\ windowHang'.landedTime = windowHang.landedTime
           /\ windowHang'.swingStartTime = windowHang.swingStartTime ]_vars

\* The avatar swings on a window, having paused and changed pose for the
\* full durations.
C26_Witness ==
  /\ OnWindow
  /\ windowHang.phase = "swinging"
  /\ windowHang.swingStartTime - windowHang.landedTime >= WINDOW_PAUSE_DURATION
  /\ elapsedTime - windowHang.swingStartTime >= WINDOW_TRANSITION_DURATION

\* C27: a swinging avatar keeps swinging while its platform stays the same;
\* a change of platform away from a window sets the hang phase to none and
\* starts a jump, whatever the phase was; and in every state a hang phase
\* other than none means the avatar is on a window with no jump in flight.
C27_SwingUntilJump ==
  /\ [][ /\ ((windowHang.phase = "swinging" /\ platform' = platform) =>
                windowHang'.phase = "swinging")
          /\ ((OnWindow /\ platform' # platform) =>
                (windowHang'.phase = "none" /\ jump'.active)) ]_vars
  /\ [](windowHang.phase # "none" => OnWindow /\ ~jump.active)

\* The avatar swung through one more frame and has then just started a jump
\* off the window: the phase is none again.
C27_Witness ==
  /\ ~OnWindow
  /\ windowHang.phase = "none"
  /\ jump.active
  /\ jump.t0 < 0
  /\ windowHang.swingStartTime > 0
  /\ elapsedTime > windowHang.swingStartTime + WINDOW_TRANSITION_DURATION
====
